---- MODULE Spec2Model ----
(***************************************************************************)
(* Model of the content pipeline of the flower blog posting automation:    *)
(* the Celery task process_flower_content (workers/tasks.py), the post     *)
(* entity (domain/entities.py), the SQLAlchemy post repository             *)
(* (infrastructure/database/repositories.py), the publisher registry       *)
(* (core/services/social_publisher.py), the upload endpoint (app/api.py)   *)
(* and the task queue's result lookup (workers/celery_app.py).             *)
(*                                                                         *)
(* Every collaborator call of the task (store load, store update,          *)
(* analysis, generation, rendering, publish) is one step of a run; its     *)
(* outcome (value returned or exception raised) is chosen                  *)
(* nondeterministically.  Fields the task only carries along (title,       *)
(* description, schedule_time, updated_at, url and post_id of a publish    *)
(* result) are left out of the records.                                    *)
(*                                                                         *)
(* Spec runs one task at a time, FairSpec adds that a started task is run  *)
(* to its end, ConcSpec runs the tasks of two different posts interleaved, *)
(* SameSpec runs two deliveries of the task of one post interleaved, and   *)
(* ContractSpec calls publish, update, the upload endpoint and the task's  *)
(* failure handler directly on every input of a bounded set.               *)
(***************************************************************************)
EXTENDS Integers, Sequences, FiniteSets, TLC

\* ---------------------------------------------------------------- bounds
MaxPlatforms == 2      \* longest platforms list of a stored post
MaxInvocations == 2    \* invocations of the task over one behaviour
MaxFaults == 2         \* collaborator calls that fail over one behaviour

\* ------------------------------------------------------------- constants
\* Python None for a string-valued field
NULL == "NULL"
\* Python None where an entity or a row is expected
None == [id |-> NULL]
\* a JSON list column or Optional[List] field: None or a list
NullList == [isnull |-> TRUE, items |-> <<>>]
List(items) == [isnull |-> FALSE, items |-> items]

\* Platform(str, Enum) values
Platform == {"naver", "instagram", "youtube"}

\* PostStatus(str, Enum) values
PENDING == "pending"
PROCESSING == "processing"
COMPLETED == "completed"
FAILED == "failed"
PostStatus == {PENDING, PROCESSING, COMPLETED, FAILED}

\* ids of the rows saved in the store, and an id no row has
StoredIds == {"p1", "p2"}
MissingIds == {"p3"}
PostIds == StoredIds \cup MissingIds

\* worker slots; the sequential specification uses the first one only
Runs == {1, 2}
SeqRuns == {1}
\* the ids the scheduler delivers: a stored post and an id without a row
\* (the other row belongs to a task that is not delivered meanwhile)
Enqueued == {"p1", "p3"}

\* the seven attributes of FlowerData, and a key the analysis may return
\* beyond them (the prompt names no keys)
FlowerDataKeys == {"flower_type", "colors", "seasonal", "meaning", "care_tips",
                   "decoration_ideas", "gift_occasions"}
OtherKeys == {"note"}

\* a value of the flower_data field or column: None, a dict (JSON object)
\* or a FlowerData object.  keys are the keys present, defaulted those of
\* them holding the default of FlowerData.from_dict, and n tells whose
\* analysis the other values are (0: nobody's)
NoData == [kind |-> "None", keys |-> {}, defaulted |-> {}, n |-> 0]
Dict(keys, defaulted, n) == [kind |-> "dict", keys |-> keys, defaulted |-> defaulted, n |-> n]

\* analysis results: JSON objects returned by the analysis call.  EMPTY is
\* the object {} (falsy in Python, and without the keys the prompts use).
EMPTY == Dict({}, {}, 0)
\* the attributes the analysis returns to invocation n (a fresh value per
\* invocation, so that a later run's write is told from an earlier one's):
\* an object with exactly the seven keys, or one with a further key
Attributes(n) == {Dict(FlowerDataKeys, {}, n), Dict(FlowerDataKeys \cup OtherKeys, {}, n)}
\* default_data built by analyze_flower_image and attached to the exception
DEFAULT_DATA == Dict(FlowerDataKeys, {}, 0)

\* FlowerData.from_dict: the seven attributes are taken with data.get(key,
\* default); any other key is dropped
from_dict(data) ==
    [kind |-> "FlowerData", keys |-> FlowerDataKeys,
     defaulted |-> (data.defaulted \cap FlowerDataKeys) \cup (FlowerDataKeys \ data.keys),
     n |-> IF FlowerDataKeys \cap data.keys \subseteq data.defaulted THEN 0 ELSE data.n]

\* FlowerData.to_dict: a dict of the seven attributes
to_dict(data) == [data EXCEPT !.kind = "dict"]

\* Python truthiness of a flower_data value: None and {} are falsy
TruthyData(data) == data.kind = "FlowerData" \/ (data.kind = "dict" /\ data.keys # {})

\* texts returned by the generator to invocation n
BlogContents(n) == {"blog" \o ToString(n)}
Captions(n) == {"caption" \o ToString(n)}
TagLists(n) == {<<"#tag" \o ToString(n)>>}
\* f"uploads/{post_id}/shorts_video.mp4"
VideoPath(post_id) == "uploads/" \o post_id \o "/shorts_video.mp4"

\* str(e) of the exceptions the collaborators raise
MSG_ANALYSIS == "image analysis error"
MSG_GENERATION == "content generation error"
MSG_MEDIA == "media processing error"
MSG_REPO_FIND == "repository find error"
MSG_REPO_UPDATE == "repository update error"
MSG_PUBLISH == "publishing error"
\* str(e) of an exception raised while the services are constructed
MSG_INIT == "initialisation error"
\* str(e) of PublishingError(f"지원되지 않는 플랫폼입니다: {platform.value}")
MSG_UNSUPPORTED == "unsupported platform"

\* ------------------------------------------------------------- sequences
RECURSIVE SeqsUpTo(_, _)
SeqsUpTo(S, n) ==
    IF n = 0 THEN {<<>>}
    ELSE LET shorter == SeqsUpTo(S, n - 1)
         IN  shorter \cup {Append(s, x) : s \in {t \in shorter : Len(t) = n - 1}, x \in S}

\* the platforms lists a stored post can carry (any order, repeats allowed)
PlatformLists == SeqsUpTo(Platform, MaxPlatforms)

\* -------------------------------------------------------------- entities
\* PublishResult(success, platform, error)
PublishResult(success, platform, error) ==
    [success |-> success, platform |-> platform, error |-> error]

\* FlowerPost as constructed by upload_flower_images: status pending, every
\* derived field at its dataclass default
NewFlowerPost(id, platforms) ==
    [id |-> id,
     image_paths |-> <<"img1">>,
     platforms |-> platforms,
     status |-> PENDING,
     error_message |-> NULL,
     flower_data |-> NoData,
     blog_content |-> NULL,
     instagram_caption |-> NULL,
     instagram_tags |-> NullList,
     video_path |-> NULL,
     publish_results |-> <<>>,
     created_at |-> "t0"]

\* Platform.__members__: the names of the enumeration's members
Members == {"NAVER", "INSTAGRAM", "YOUTUBE"}

\* the platform strings a submission can carry: the three identifiers, a
\* member name and a string that is neither
RequestStrings == Platform \cup {"NAVER", "tiktok"}

\* api.py line 85: [Platform(p) for p in platforms if p in Platform.__members__]
\* The filter keeps the strings that are member names; Platform(p) looks p
\* up among the values and raises ValueError for any other string
platform_enums(platforms) ==
    LET kept == SelectSeq(platforms, LAMBDA p : p \in Members)
    IN  IF \E i \in 1..Len(kept) : kept[i] \notin Platform
        THEN [raised |-> TRUE, value |-> <<>>]
        ELSE [raised |-> FALSE, value |-> kept]

\* Python truthiness of an Optional[str]
Truthy(v) == v # NULL /\ v # ""

\* mutant of update_status: the error message is never taken
update_status_drops_message(post, status, error_message) ==
    [post EXCEPT !.status = status]

\* mutant of update_status: a call without message puts the post back to pending
update_status_resets(post, status, error_message) ==
    [post EXCEPT !.status = IF Truthy(error_message) THEN status ELSE PENDING,
                 !.error_message = IF Truthy(error_message) THEN error_message ELSE @]

\* FlowerPost.update_status
update_status(post, status, error_message) ==
    [post EXCEPT !.status = status,
                 !.error_message = IF Truthy(error_message) THEN error_message ELSE @]

\* mutant of add_publish_result: the list is replaced instead of appended to
add_publish_result_replaces(post, result) ==
    [post EXCEPT !.publish_results = <<result>>]

\* mutant of add_publish_result: the new entry is put before the others
add_publish_result_prepends(post, result) ==
    [post EXCEPT !.publish_results = <<result>> \o @]

\* FlowerPost.add_publish_result
add_publish_result(post, result) ==
    [post EXCEPT !.publish_results = Append(@, result)]

\* ----------------------------------------------------------- repository
\* SQLAlchemyPostRepository._map_to_model: entity -> row
\* (flower_data and publish_results are stored as NULL when falsy; a
\* FlowerData object is stored as its to_dict(), a dict as it is)
_map_to_model(post) ==
    [id |-> post.id,
     image_paths |-> post.image_paths,
     platforms |-> post.platforms,
     status |-> post.status,
     error_message |-> post.error_message,
     flower_data |-> IF TruthyData(post.flower_data)
                     THEN IF post.flower_data.kind = "FlowerData"
                          THEN to_dict(post.flower_data) ELSE post.flower_data
                     ELSE NoData,
     blog_content |-> post.blog_content,
     instagram_caption |-> post.instagram_caption,
     instagram_tags |-> post.instagram_tags,
     video_path |-> post.video_path,
     publish_results |-> IF post.publish_results # <<>> THEN List(post.publish_results) ELSE NullList,
     created_at |-> post.created_at]

\* SQLAlchemyPostRepository._map_to_entity: row -> entity
\* (a truthy flower_data column goes through FlowerData.from_dict; a NULL
\* publish_results column becomes the empty list)
_map_to_entity(db_post) ==
    [id |-> db_post.id,
     image_paths |-> db_post.image_paths,
     platforms |-> db_post.platforms,
     status |-> db_post.status,
     error_message |-> db_post.error_message,
     flower_data |-> IF TruthyData(db_post.flower_data)
                     THEN from_dict(db_post.flower_data) ELSE NoData,
     blog_content |-> db_post.blog_content,
     instagram_caption |-> db_post.instagram_caption,
     instagram_tags |-> db_post.instagram_tags,
     video_path |-> db_post.video_path,
     publish_results |-> IF ~db_post.publish_results.isnull /\ db_post.publish_results.items # <<>>
                         THEN db_post.publish_results.items ELSE <<>>,
     created_at |-> db_post.created_at]

\* mutant of UpdatedStore: the query is not filtered by id, every row is overwritten
UpdatedStore_unfiltered(st, post) ==
    [id \in DOMAIN st |->
       IF st[id] = None THEN None ELSE [_map_to_model(post) EXCEPT !.id = id]]

\* mutant of UpdatedStore: the update stamps the row with a new created_at
UpdatedStore_restamped(st, post) ==
    [st EXCEPT ![post.id] = [_map_to_model(post) EXCEPT !.created_at = "t1"]]

\* the row written by a successful SQLAlchemyPostRepository.update: every
\* column of the existing row is overwritten with the mapped entity
UpdatedStore(st, post) == [st EXCEPT ![post.id] = _map_to_model(post)]

\* mutant of find_by_id: a missing row is created on the fly
find_by_id_upserts(st, post_id) ==
    IF st[post_id] = None THEN NewFlowerPost(post_id, <<>>) ELSE _map_to_entity(st[post_id])

\* SQLAlchemyPostRepository.find_by_id without a database error
find_by_id(st, post_id) ==
    IF st[post_id] = None THEN None ELSE _map_to_entity(st[post_id])

\* mutant of publish: an exception of the platform publisher is not caught
publish_propagates(platform, outcome) ==
    CASE outcome = "ok" ->
           [raised |-> FALSE, result |-> PublishResult(TRUE, platform, NULL)]
      [] outcome = "failed" ->
           [raised |-> FALSE, result |-> PublishResult(FALSE, platform, MSG_PUBLISH)]
      [] outcome = "unregistered" ->
           [raised |-> TRUE, result |-> PublishResult(FALSE, platform, MSG_UNSUPPORTED)]
      [] OTHER ->
           [raised |-> TRUE, result |-> PublishResult(FALSE, platform, MSG_PUBLISH)]

\* SocialPublisherService.publish: dispatches on the platform to the
\* registered publisher and never raises.  outcome is what happens inside
\* its try block: the platform publisher returns a successful result
\* ("ok"), returns its own failed result ("failed") or raises ("raised";
\* caught and converted here), or self.publishers holds no publisher for the
\* platform ("unregistered": PublishingError is raised and caught here).
\* The value says whether the call raised into its caller (it never does)
\* and which PublishResult it returned.
publish(platform, outcome) ==
    CASE outcome = "ok" ->
           [raised |-> FALSE, result |-> PublishResult(TRUE, platform, NULL)]
      [] outcome = "failed" ->
           [raised |-> FALSE, result |-> PublishResult(FALSE, platform, MSG_PUBLISH)]
      [] outcome = "unregistered" ->
           [raised |-> FALSE, result |-> PublishResult(FALSE, platform, MSG_UNSUPPORTED)]
      [] OTHER ->
           [raised |-> FALSE, result |-> PublishResult(FALSE, platform, MSG_PUBLISH)]

\* what a registered platform publisher can do when called
PublishOutcomes == {"ok", "failed", "raised"}

\* publisher = self.publishers.get(platform); if not publisher: raise ...
\* registry is the set of platforms whose publisher is set
Dispatch(registry, platform, behaviour) ==
    IF platform \in registry THEN behaviour ELSE "unregistered"

\* mutant of update: a post without a row is inserted
update_inserts(st, p, db_ok) ==
    IF ~db_ok
    THEN [raised |-> TRUE, store |-> st, value |-> None]
    ELSE [raised |-> FALSE, store |-> [st EXCEPT ![p.id] = _map_to_model(p)],
          value |-> _map_to_entity(_map_to_model(p))]

\* SQLAlchemyPostRepository.update: without a row of the id, or on a
\* database error (db_ok = FALSE), it rolls back and raises RepositoryError;
\* otherwise it commits the mapped entity over the row and returns the row
\* mapped back
update(st, p, db_ok) ==
    IF st[p.id] = None \/ ~db_ok
    THEN [raised |-> TRUE, store |-> st, value |-> None]
    ELSE [raised |-> FALSE, store |-> UpdatedStore(st, p),
          value |-> _map_to_entity(UpdatedStore(st, p)[p.id])]

\* SQLAlchemyPostRepository.save: the mapped entity is added as a new row
\* and returned mapped back; a row of the same id (primary key) or a
\* database error makes it roll back and raise RepositoryError
save(st, p, db_ok) ==
    IF st[p.id] # None \/ ~db_ok
    THEN [raised |-> TRUE, store |-> st, value |-> None]
    ELSE [raised |-> FALSE, store |-> [st EXCEPT ![p.id] = _map_to_model(p)],
          value |-> _map_to_entity(_map_to_model(p))]

\* ------------------------------------------------------- exceptions, returns
\* an exception: its class, str(e), and the default_data an
\* ImageAnalysisError carries (None for the other classes)
NoException == [type |-> NULL, message |-> NULL, default_data |-> NoData]
Exception(type, message) == [type |-> type, message |-> message, default_data |-> NoData]
ImageAnalysisError(message, default_data) ==
    [type |-> "ImageAnalysisError", message |-> message, default_data |-> default_data]

\* results dict of the task: platform value -> PublishResult
NoResult == PublishResult(FALSE, NULL, NULL)
NoResults == [p \in Platform |-> NoResult]

NoReturn == [kind |-> "none", success |-> FALSE, error |-> NULL,
             post_id |-> NULL, results |-> NoResults]
\* {"success": False, "error": error}
ReturnFailure(error) == [kind |-> "return", success |-> FALSE, error |-> error,
                         post_id |-> NULL, results |-> NoResults]
\* mutant of ReturnSuccess: the results dict is returned empty
ReturnSuccess_without_results(id, res) ==
    [kind |-> "return", success |-> TRUE, error |-> NULL, post_id |-> id, results |-> NoResults]

\* {"success": True, "post_id": post_id, "results": results}
ReturnSuccess(id, res) == [kind |-> "return", success |-> TRUE, error |-> NULL,
                           post_id |-> id, results |-> res]
\* the task ends by raising
Raise(error) == [kind |-> "raise", success |-> FALSE, error |-> error,
                 post_id |-> NULL, results |-> NoResults]

\* CeleryTaskQueue.get_task_result for a task that ended as `outcome`:
\* ready() holds once the task has returned or raised, successful() when
\* it returned (whatever it returned)
get_task_result(outcome) ==
    IF outcome.kind = "none" THEN [status |-> "pending"]
    ELSE IF outcome.kind = "return" THEN [status |-> "completed", result |-> outcome]
    ELSE [status |-> "failed", error |-> outcome.error]

\* ----------------------------------------------------------------- state
VARIABLES
    store,        \* flower_posts table: id -> row, None where no row exists
    invocations,  \* invocations of the task started so far
    pc,           \* position of each run in process_flower_content
    task_id,      \* number of the invocation the run executes
    post_id,      \* argument of the run
    post,         \* local post (None while unbound)
    flower_data,  \* local flower_data
    idx,          \* position of the for loop in post.platforms (1-based)
    results,      \* local results dict
    exc,          \* exception being handled
    ret,          \* how the run ended
    db_open,      \* the run's session is open
    calls,        \* history: collaborator calls of the run, in order
    snap,         \* history: the store when the run started
    faults,       \* history: collaborator calls that failed so far
    publishers,   \* self.publishers: the platforms whose publisher is set
    direct        \* history: the last call made on a collaborator directly

vars == <<store, invocations, pc, task_id, post_id, post, flower_data, idx, results,
          exc, ret, db_open, calls, snap, faults, publishers, direct>>

\* a collaborator call of a run: operation, position of the run, loop index
\* (0 outside the loop) and whether it returned normally
Call(op, at, i, ok) == [op |-> op, at |-> at, i |-> i, ok |-> ok]

\* no direct call yet
NoCall == [op |-> "none"]

\* the table with row1 as the row of the first post, the second post as
\* saved by upload_flower_images, and no row of the third id
Table(row1) ==
    [id \in PostIds |->
       IF id = "p1" THEN row1
       ELSE IF id = "p2" THEN _map_to_model(NewFlowerPost(id, <<"naver">>))
       ELSE None]

\* no task delivered yet, no collaborator called yet
InitRuns ==
    /\ invocations = 0
    /\ pc = [r \in Runs |-> "idle"]
    /\ task_id = [r \in Runs |-> 0]
    /\ post_id = [r \in Runs |-> NULL]
    /\ post = [r \in Runs |-> None]
    /\ flower_data = [r \in Runs |-> NoData]
    /\ idx = [r \in Runs |-> 0]
    /\ results = [r \in Runs |-> NoResults]
    /\ exc = [r \in Runs |-> NoException]
    /\ ret = [r \in Runs |-> NoReturn]
    /\ db_open = [r \in Runs |-> FALSE]
    /\ calls = [r \in Runs |-> <<>>]
    /\ snap = [r \in Runs |-> store]
    /\ faults = 0
    /\ direct = NoCall

\* the rows are pending posts as repository.save inserts them (status
\* pending, no derived field set), the first with any list of requested
\* platforms; get_social_publishers registers a publisher for each of the
\* platforms
Init ==
    /\ \E pl \in PlatformLists : store = Table(_map_to_model(NewFlowerPost("p1", pl)))
    /\ InitRuns
    /\ publishers = Platform

\* -------------------------------------------------------- steps of a run
\* mutant of LoopHead: the loop leaves out the last requested platform
LoopHead_stops_early(p, i) == IF i < Len(p.platforms) THEN "generate" ELSE "complete"

\* mutant of LoopHead: a platform an earlier run has published is skipped
LoopHead_skips_published(p, i) ==
    IF /\ i <= Len(p.platforms)
       /\ ~\E k \in 1..Len(p.publish_results) :
              p.publish_results[k].platform = p.platforms[i] /\ p.publish_results[k].success
    THEN "generate" ELSE "complete"

\* the for loop's head: the next platform's branch, or the code after the loop
LoopHead(p, i) == IF i <= Len(p.platforms) THEN "generate" ELSE "complete"

\* a collaborator call that fails although it could have succeeded
\* (failed = TRUE) uses up one of the faults the model allows
Fault(failed) ==
    /\ failed => faults < MaxFaults
    /\ faults' = IF failed THEN faults + 1 ELSE faults

\* raise of exception e inside the try block: control goes to the handlers
RaiseInTry(r, e) ==
    /\ exc' = [exc EXCEPT ![r] = e]
    /\ pc' = [pc EXCEPT ![r] = "except"]

\* repository.update(post) called by run r at position `at`: it commits the
\* mapped entity over the existing row, or raises RepositoryError (no row, or
\* a database error followed by rollback) and leaves the table as it was
RepositoryUpdate(r, p, ok) ==
    /\ ok = ~update(store, p, ok).raised
    /\ Fault(~ok)
    /\ store' = update(store, p, ok).store
    /\ calls' = [calls EXCEPT ![r] = Append(@, Call("update", pc[r], idx[r], ok))]

\* the scheduler invokes the task.  Line 37 opens the session; lines 38-45
\* construct the repository and the services before the try block of line
\* 47, so an exception raised there leaves the task at once, past the
\* handlers and the finally clause
Start(r, id) ==
    /\ pc[r] \in {"idle", "done"}
    /\ invocations < MaxInvocations
    /\ invocations' = invocations + 1
    /\ \E ok \in BOOLEAN :
         /\ Fault(~ok)
         /\ pc' = [pc EXCEPT ![r] = IF ok THEN "find_by_id" ELSE "done"]
         /\ ret' = [ret EXCEPT ![r] = IF ok THEN NoReturn ELSE Raise(MSG_INIT)]
    /\ task_id' = [task_id EXCEPT ![r] = invocations + 1]
    /\ post_id' = [post_id EXCEPT ![r] = id]
    /\ post' = [post EXCEPT ![r] = None]
    /\ flower_data' = [flower_data EXCEPT ![r] = NoData]
    /\ idx' = [idx EXCEPT ![r] = 0]
    /\ results' = [results EXCEPT ![r] = NoResults]
    /\ exc' = [exc EXCEPT ![r] = NoException]
    /\ db_open' = [db_open EXCEPT ![r] = TRUE]
    /\ calls' = [calls EXCEPT ![r] = <<>>]
    /\ snap' = [snap EXCEPT ![r] = store]
    /\ UNCHANGED <<publishers, direct, store>>

\* lines 49-51: post = repository.find_by_id(post_id); not found returns
FindById(r) ==
    /\ pc[r] = "find_by_id"
    /\ \E ok \in BOOLEAN :
         /\ Fault(~ok)
         /\ calls' = [calls EXCEPT ![r] = Append(@, Call("find_by_id", pc[r], 0, ok))]
         /\ IF ~ok
            THEN /\ RaiseInTry(r, Exception("RepositoryError", MSG_REPO_FIND))
                 /\ UNCHANGED <<post, ret>>
            ELSE LET found == find_by_id(store, post_id[r])
                 IN  IF found = None
                     THEN /\ ret' = [ret EXCEPT ![r] = ReturnFailure("Post not found")]
                          /\ pc' = [pc EXCEPT ![r] = "finally"]
                          /\ UNCHANGED <<post, exc>>
                     ELSE /\ post' = [post EXCEPT ![r] = found]
                          /\ pc' = [pc EXCEPT ![r] = "set_processing"]
                          /\ UNCHANGED <<exc, ret>>
    /\ UNCHANGED <<publishers, direct, store, invocations, task_id, post_id, flower_data, idx, results, db_open, snap>>

\* lines 54-55: post.update_status(PROCESSING); repository.update(post)
SetProcessing(r) ==
    /\ pc[r] = "set_processing"
    /\ LET p == update_status(post[r], PROCESSING, NULL)
       IN  /\ post' = [post EXCEPT ![r] = p]
           /\ \E ok \in BOOLEAN :
                /\ RepositoryUpdate(r, p, ok)
                /\ IF ok
                   THEN pc' = [pc EXCEPT ![r] = "analyze"] /\ UNCHANGED exc
                   ELSE RaiseInTry(r, Exception("RepositoryError", MSG_REPO_UPDATE))
    /\ UNCHANGED <<publishers, direct, invocations, task_id, post_id, flower_data, idx, results, ret, db_open, snap>>

\* lines 58-62: flower_data = image_analyzer.analyze_flower_image(main_image);
\* post.flower_data = flower_data.  On failure the analyzer raises
\* ImageAnalysisError, which carries default_data
Analyze(r) ==
    /\ pc[r] = "analyze"
    /\ \/ \E a \in Attributes(task_id[r]) \cup {EMPTY} :
            /\ Fault(a = EMPTY)
            /\ calls' = [calls EXCEPT ![r] = Append(@, Call("analyze_flower_image", pc[r], 0, TRUE))]
            /\ flower_data' = [flower_data EXCEPT ![r] = a]
            /\ post' = [post EXCEPT ![r].flower_data = a]
            /\ pc' = [pc EXCEPT ![r] = "save_analysis"]
            /\ UNCHANGED exc
       \/ /\ Fault(TRUE)
          /\ calls' = [calls EXCEPT ![r] = Append(@, Call("analyze_flower_image", pc[r], 0, FALSE))]
          /\ RaiseInTry(r, ImageAnalysisError(MSG_ANALYSIS, DEFAULT_DATA))
          /\ UNCHANGED <<flower_data, post>>
    /\ UNCHANGED <<publishers, direct, store, invocations, task_id, post_id, idx, results, ret, db_open, snap>>

\* mutant of SaveAnalysis: the loop starts without the update of line 63
SaveAnalysis_unsaved(r) ==
    /\ pc[r] = "save_analysis"
    /\ idx' = [idx EXCEPT ![r] = 1]
    /\ pc' = [pc EXCEPT ![r] = LoopHead(post[r], 1)]
    /\ UNCHANGED <<publishers, direct, store, invocations, task_id, post_id, post, flower_data,
                   results, exc, ret, db_open, calls, snap, faults>>

\* line 63: repository.update(post), then the loop starts
SaveAnalysis(r) ==
    /\ pc[r] = "save_analysis"
    /\ \E ok \in BOOLEAN :
         /\ RepositoryUpdate(r, post[r], ok)
         /\ IF ok
            THEN /\ idx' = [idx EXCEPT ![r] = 1]
                 /\ pc' = [pc EXCEPT ![r] = LoopHead(post[r], 1)]
                 /\ UNCHANGED exc
            ELSE /\ RaiseInTry(r, Exception("RepositoryError", MSG_REPO_UPDATE))
                 /\ UNCHANGED idx
    /\ UNCHANGED <<publishers, direct, invocations, task_id, post_id, post, flower_data, results, ret, db_open, snap>>

\* mutant of CurrentPlatform: the loop walks the list from its end
CurrentPlatform_reversed(r) == post[r].platforms[Len(post[r].platforms) + 1 - idx[r]]

\* the platform of the current loop iteration (for platform in post.platforms)
CurrentPlatform(r) == post[r].platforms[idx[r]]

\* the generator and the renderer read flower_data['flower_type'] and the
\* other keys inside their try blocks: on {} they raise their own error
CanGenerate(r) == FlowerDataKeys \subseteq flower_data[r].keys

\* lines 72-73 (naver), 94-97 (instagram), 117-119 (youtube): the platform's
\* content is generated and set on the post; a generator or renderer error
\* is raised into the task's try block
Generate(r) ==
    /\ pc[r] = "generate"
    /\ LET here(op, ok) == Call(op, pc[r], idx[r], ok)
       IN
       \/ /\ CurrentPlatform(r) = "naver"
          /\ \/ /\ CanGenerate(r) /\ Fault(FALSE)
                /\ \E c \in BlogContents(task_id[r]) :
                     post' = [post EXCEPT ![r].blog_content = c]
                /\ calls' = [calls EXCEPT ![r] = Append(@, here("generate_blog_post", TRUE))]
                /\ pc' = [pc EXCEPT ![r] = "save_content"]
                /\ UNCHANGED exc
             \/ /\ Fault(CanGenerate(r))
                /\ calls' = [calls EXCEPT ![r] = Append(@, here("generate_blog_post", FALSE))]
                /\ RaiseInTry(r, Exception("ContentGenerationError", MSG_GENERATION))
                /\ UNCHANGED post
       \/ /\ CurrentPlatform(r) = "instagram"
          /\ \/ /\ CanGenerate(r) /\ Fault(FALSE)
                /\ \E c \in Captions(task_id[r]), t \in TagLists(task_id[r]) :
                     post' = [post EXCEPT ![r].instagram_caption = c,
                                          ![r].instagram_tags = List(t)]
                /\ calls' = [calls EXCEPT ![r] =
                               @ \o <<here("generate_instagram_caption", TRUE),
                                      here("generate_tags", TRUE)>>]
                /\ pc' = [pc EXCEPT ![r] = "save_content"]
                /\ UNCHANGED exc
             \/ /\ Fault(CanGenerate(r))
                /\ calls' = [calls EXCEPT ![r] =
                               Append(@, here("generate_instagram_caption", FALSE))]
                /\ RaiseInTry(r, Exception("ContentGenerationError", MSG_GENERATION))
                /\ UNCHANGED post
             \/ /\ CanGenerate(r) /\ Fault(TRUE)
                /\ calls' = [calls EXCEPT ![r] =
                               @ \o <<here("generate_instagram_caption", TRUE),
                                      here("generate_tags", FALSE)>>]
                /\ RaiseInTry(r, Exception("ContentGenerationError", MSG_GENERATION))
                /\ UNCHANGED post
       \/ /\ CurrentPlatform(r) = "youtube"
          /\ \/ /\ CanGenerate(r) /\ Fault(FALSE)
                /\ post' = [post EXCEPT ![r].video_path = VideoPath(post_id[r])]
                /\ calls' = [calls EXCEPT ![r] = Append(@, here("create_shorts_video", TRUE))]
                /\ pc' = [pc EXCEPT ![r] = "save_content"]
                /\ UNCHANGED exc
             \/ /\ Fault(CanGenerate(r))
                /\ calls' = [calls EXCEPT ![r] = Append(@, here("create_shorts_video", FALSE))]
                /\ RaiseInTry(r, Exception("MediaProcessingError", MSG_MEDIA))
                /\ UNCHANGED post
    /\ UNCHANGED <<publishers, direct, store, invocations, task_id, post_id, flower_data, idx, results, ret, db_open, snap>>

\* mutant of SaveContent: the publish follows without the update
SaveContent_unsaved(r) ==
    /\ pc[r] = "save_content"
    /\ pc' = [pc EXCEPT ![r] = IF CurrentPlatform(r) = "youtube" THEN "describe" ELSE "publish"]
    /\ UNCHANGED <<publishers, direct, store, invocations, task_id, post_id, post, flower_data,
                   idx, results, exc, ret, db_open, calls, snap, faults>>

\* lines 74, 98, 120: repository.update(post) after the content is set
SaveContent(r) ==
    /\ pc[r] = "save_content"
    /\ \E ok \in BOOLEAN :
         /\ RepositoryUpdate(r, post[r], ok)
         /\ IF ok
            THEN /\ pc' = [pc EXCEPT ![r] =
                             IF CurrentPlatform(r) = "youtube" THEN "describe" ELSE "publish"]
                 /\ UNCHANGED exc
            ELSE RaiseInTry(r, Exception("RepositoryError", MSG_REPO_UPDATE))
    /\ UNCHANGED <<publishers, direct, invocations, task_id, post_id, post, flower_data, idx, results, ret, db_open, snap>>

\* lines 123-125 (youtube only): title, description, and
\* tags = content_generator.generate_tags(flower_data)
Describe(r) ==
    /\ pc[r] = "describe"
    /\ \E ok \in BOOLEAN :
         /\ Fault(~ok)
         /\ calls' = [calls EXCEPT ![r] = Append(@, Call("generate_tags", pc[r], idx[r], ok))]
         /\ IF ok
            THEN pc' = [pc EXCEPT ![r] = "publish"] /\ UNCHANGED exc
            ELSE RaiseInTry(r, Exception("ContentGenerationError", MSG_GENERATION))
    /\ UNCHANGED <<publishers, direct, store, invocations, task_id, post_id, post, flower_data, idx, results, ret,
                   db_open, snap>>

\* lines 79-87, 102-110, 129-138: result = social_publishers.publish(...);
\* post.add_publish_result(result)
Publish(r) ==
    /\ pc[r] = "publish"
    /\ \E outcome \in PublishOutcomes :
         LET call == publish(CurrentPlatform(r),
                             Dispatch(publishers, CurrentPlatform(r), outcome))
         IN  /\ Fault(outcome # "ok")
             /\ calls' = [calls EXCEPT ![r] =
                            Append(@, Call("publish", pc[r], idx[r], outcome = "ok"))]
             /\ IF call.raised
                THEN /\ RaiseInTry(r, Exception("PublishingError", MSG_PUBLISH))
                     /\ UNCHANGED post
                ELSE /\ post' = [post EXCEPT ![r] = add_publish_result(@, call.result)]
                     /\ pc' = [pc EXCEPT ![r] = "save_result"]
                     /\ UNCHANGED exc
    /\ UNCHANGED <<publishers, direct, store, invocations, task_id, post_id, flower_data, idx, results, ret,
                   db_open, snap>>

\* lines 88-89, 111-112, 139-140: repository.update(post);
\* results[platform] = result; then the next iteration
SaveResult(r) ==
    /\ pc[r] = "save_result"
    /\ \E ok \in BOOLEAN :
         /\ RepositoryUpdate(r, post[r], ok)
         /\ IF ok
            THEN /\ results' = [results EXCEPT ![r][CurrentPlatform(r)] =
                                  post[r].publish_results[Len(post[r].publish_results)]]
                 /\ idx' = [idx EXCEPT ![r] = @ + 1]
                 /\ pc' = [pc EXCEPT ![r] = LoopHead(post[r], idx[r] + 1)]
                 /\ UNCHANGED exc
            ELSE /\ RaiseInTry(r, Exception("RepositoryError", MSG_REPO_UPDATE))
                 /\ UNCHANGED <<results, idx>>
    /\ UNCHANGED <<publishers, direct, invocations, task_id, post_id, post, flower_data, ret, db_open, snap>>

\* lines 143-147: post.update_status(COMPLETED); repository.update(post);
\* return {"success": True, ...}
Complete(r) ==
    /\ pc[r] = "complete"
    /\ LET p == update_status(post[r], COMPLETED, NULL)
       IN  /\ post' = [post EXCEPT ![r] = p]
           /\ \E ok \in BOOLEAN :
                /\ RepositoryUpdate(r, p, ok)
                /\ IF ok
                   THEN /\ ret' = [ret EXCEPT ![r] = ReturnSuccess(post_id[r], results[r])]
                        /\ pc' = [pc EXCEPT ![r] = "finally"]
                        /\ UNCHANGED exc
                   ELSE /\ RaiseInTry(r, Exception("RepositoryError", MSG_REPO_UPDATE))
                        /\ UNCHANGED ret
    /\ UNCHANGED <<publishers, direct, invocations, task_id, post_id, flower_data, idx, results, db_open, snap>>

\* mutant of FailedPost: the handler records the message but not the status
FailedPost_keeps_status(p, e) == [p EXCEPT !.error_message = e.message]

\* mutant of FailedPost: the handler falls back to the exception's default_data
FailedPost_with_default_data(p, e) ==
    [update_status(p, FAILED, e.message) EXCEPT
        !.flower_data = IF e.default_data # NoData THEN e.default_data ELSE @]

\* the post the handlers write: status failed with str(e) as the message
FailedPost(p, e) == update_status(p, FAILED, e.message)

\* lines 149-159: both handlers do post.update_status(FAILED, str(e));
\* repository.update(post); return {"success": False, "error": str(e)}.
\* With post unbound (find_by_id raised) the handler raises
\* UnboundLocalError; a failing update raises RepositoryError out of the task
Except(r) ==
    /\ pc[r] = "except"
    /\ IF post[r] = None
       THEN /\ ret' = [ret EXCEPT ![r] = Raise("UnboundLocalError")]
            /\ UNCHANGED <<store, post, calls, faults>>
       ELSE LET p == FailedPost(post[r], exc[r])
            IN  /\ post' = [post EXCEPT ![r] = p]
                /\ \E ok \in BOOLEAN :
                     /\ RepositoryUpdate(r, p, ok)
                     /\ ret' = [ret EXCEPT ![r] =
                                  IF ok THEN ReturnFailure(exc[r].message)
                                  ELSE Raise(MSG_REPO_UPDATE)]
    /\ pc' = [pc EXCEPT ![r] = "finally"]
    /\ UNCHANGED <<publishers, direct, invocations, task_id, post_id, flower_data, idx, results, exc, db_open, snap>>

\* lines 161-162: db.close()
Finally(r) ==
    /\ pc[r] = "finally"
    /\ db_open' = [db_open EXCEPT ![r] = FALSE]
    /\ pc' = [pc EXCEPT ![r] = "done"]
    /\ UNCHANGED <<publishers, direct, store, invocations, task_id, post_id, post, flower_data, idx, results, exc, ret,
                   calls, snap, faults>>

\* ------------------------------------------------------- specifications
\* one invocation at a time (one task owns the post for its whole run)
Next ==
    \E r \in SeqRuns :
        \/ \E id \in Enqueued : Start(r, id)
        \/ FindById(r)
        \/ SetProcessing(r)
        \/ Analyze(r)
        \/ SaveAnalysis(r)
        \/ Generate(r)
        \/ SaveContent(r)
        \/ Describe(r)
        \/ Publish(r)
        \/ SaveResult(r)
        \/ Complete(r)
        \/ Except(r)
        \/ Finally(r)

Spec == Init /\ [][Next]_vars

\* the steps of a started run: everything but the scheduler's Start
RunStep(r) ==
    \/ FindById(r) \/ SetProcessing(r) \/ Analyze(r) \/ SaveAnalysis(r)
    \/ Generate(r) \/ SaveContent(r) \/ Describe(r) \/ Publish(r)
    \/ SaveResult(r) \/ Complete(r) \/ Except(r) \/ Finally(r)

\* the worker executes a started task to its end: every collaborator call
\* returns or raises, and the worker then takes the task's next step
FairSpec == Spec /\ \A r \in SeqRuns : WF_vars(RunStep(r))

\* ------------------------------------------- concurrent specification
\* the post id each worker slot is given: one task owns one post id, and the
\* two pipelines that run at the same time are for different ids
Owned(r) == IF r = 1 THEN "p1" ELSE "p2"

\* two workers, each with its own session, execute their tasks step by
\* step in any interleaving
ConcNext ==
    \E r \in Runs :
        \/ Start(r, Owned(r))
        \/ FindById(r)
        \/ SetProcessing(r)
        \/ Analyze(r)
        \/ SaveAnalysis(r)
        \/ Generate(r)
        \/ SaveContent(r)
        \/ Describe(r)
        \/ Publish(r)
        \/ SaveResult(r)
        \/ Complete(r)
        \/ Except(r)
        \/ Finally(r)

\* both posts request fewer than MaxPlatforms platforms
ConcInit == Init /\ Len(store["p1"].platforms) < MaxPlatforms

ConcSpec == ConcInit /\ [][ConcNext]_vars

\* at-least-once delivery: the scheduler hands the task of the same post id
\* to both workers, and the two invocations run step by step in any
\* interleaving, each with its own session and its own loaded post
SameNext ==
    \E r \in Runs :
        \/ Start(r, "p1")
        \/ FindById(r)
        \/ SetProcessing(r)
        \/ Analyze(r)
        \/ SaveAnalysis(r)
        \/ Generate(r)
        \/ SaveContent(r)
        \/ Describe(r)
        \/ Publish(r)
        \/ SaveResult(r)
        \/ Complete(r)
        \/ Except(r)
        \/ Finally(r)

SameSpec == ConcInit /\ [][SameNext]_vars

\* --------------------------------- the collaborators called directly
\* the entities a caller can hand to update: an id with or without a row,
\* and every derived field unset, empty or set
Posts ==
    {[NewFlowerPost(id, <<"naver">>) EXCEPT
         !.status = IF em = NULL THEN PROCESSING ELSE FAILED,
         !.error_message = em, !.flower_data = fd,
         !.instagram_tags = tg, !.publish_results = pr] :
       id \in {"p1", "p3"},
       em \in {NULL, MSG_ANALYSIS},
       fd \in {NoData, EMPTY, from_dict(DEFAULT_DATA)} \cup Attributes(1),
       tg \in {NullList, List(<<>>), List(<<"#tag1">>)},
       pr \in {<<>>, <<PublishResult(TRUE, "naver", NULL)>>}}

\* SocialPublisherService(naver_publisher, instagram_publisher,
\* youtube_publisher): a caller can construct the registry with any of the
\* three publishers unset
\* and the row of the first post is one that update has written before
ContractInit ==
    /\ \E p \in Posts : p.id = "p1" /\ store = Table(_map_to_model(p))
    /\ InitRuns
    /\ publishers \in SUBSET Platform

\* publish(platform, content) called on the registry
PublishCall(platform, behaviour) ==
    /\ direct = NoCall
    /\ LET outcome == Dispatch(publishers, platform, behaviour)
           call == publish(platform, outcome)
       IN  direct' = [op |-> "publish", platform |-> platform, outcome |-> outcome,
                      raised |-> call.raised, result |-> call.result]
    /\ UNCHANGED <<store, invocations, pc, task_id, post_id, post, flower_data, idx, results,
                   exc, ret, db_open, calls, snap, faults, publishers>>

\* update(post) called on the repository
UpdateCall(p, db_ok) ==
    /\ direct = NoCall
    /\ LET call == update(store, p, db_ok)
       IN  /\ store' = call.store
           /\ direct' = [op |-> "update", post |-> p, db_ok |-> db_ok, before |-> store,
                          raised |-> call.raised, value |-> call.value]
    /\ UNCHANGED <<invocations, pc, task_id, post_id, post, flower_data, idx, results,
                   exc, ret, db_open, calls, snap, faults, publishers>>

\* the platform lists a submission can carry
RequestLists == SeqsUpTo(RequestStrings, MaxPlatforms)

\* POST /upload/ with the form field platforms: upload_flower_images
\* converts the strings (line 85), constructs the pending FlowerPost under a
\* new id (lines 72, 88-96) and saves it (line 99); an exception raised on
\* the way fails the request
UploadCall(platforms, db_ok) ==
    /\ direct = NoCall
    /\ \E id \in MissingIds :
         LET enums == platform_enums(platforms)
             call == save(store, NewFlowerPost(id, enums.value), db_ok)
         IN  IF enums.raised
             THEN /\ direct' = [op |-> "upload", platforms |-> platforms, id |-> id,
                                raised |-> TRUE, error |-> "ValueError"]
                  /\ UNCHANGED store
             ELSE /\ direct' = [op |-> "upload", platforms |-> platforms, id |-> id,
                                raised |-> call.raised,
                                error |-> IF call.raised THEN "RepositoryError" ELSE NULL]
                  /\ store' = call.store
    /\ UNCHANGED <<invocations, pc, task_id, post_id, post, flower_data, idx, results,
                   exc, ret, db_open, calls, snap, faults, publishers>>

\* the exceptions the handlers are entered with: a DomainException with
\* its message, and an exception whose str() is the empty string (such as
\* MemoryError()), caught by the except Exception clause
HandlerExceptions == {Exception("RepositoryError", MSG_REPO_UPDATE), Exception("Exception", "")}

\* lines 149-159 entered with the loaded post p and the exception e:
\* post.update_status(PostStatus.FAILED, str(e)); repository.update(post);
\* return {"success": False, "error": str(e)}
HandlerCall(p, e, db_ok) ==
    /\ direct = NoCall
    /\ store[p.id] # None
    /\ LET call == update(store, FailedPost(p, e), db_ok)
       IN  /\ store' = call.store
           /\ direct' = [op |-> "handler", post |-> p, exception |-> e, db_ok |-> db_ok,
                          raised |-> call.raised,
                          value |-> IF call.raised THEN Raise(MSG_REPO_UPDATE)
                                    ELSE ReturnFailure(e.message)]
    /\ UNCHANGED <<invocations, pc, task_id, post_id, post, flower_data, idx, results,
                   exc, ret, db_open, calls, snap, faults, publishers>>

ContractNext ==
    \/ \E platform \in Platform, behaviour \in PublishOutcomes : PublishCall(platform, behaviour)
    \/ \E p \in Posts, db_ok \in BOOLEAN : UpdateCall(p, db_ok)
    \/ \E platforms \in RequestLists, db_ok \in BOOLEAN : UploadCall(platforms, db_ok)
    \/ \E p \in Posts, e \in HandlerExceptions, db_ok \in BOOLEAN : HandlerCall(p, e, db_ok)

ContractSpec == ContractInit /\ [][ContractNext]_vars

\* ------------------------------------------------- reading a behaviour
\* load(id) as any reader of the store sees it
Stored(id) == _map_to_entity(store[id])
\* the post of run r as the store held it when the run started
Before(r) == _map_to_entity(snap[r][post_id[r]])
\* run r was invoked on an id that has a row
Existing(r) == post_id[r] # NULL /\ snap[r][post_id[r]] # None
\* run r has ended
Done(r) == pc[r] = "done"
\* run r ended while its services were constructed, before the try block
InitRaised(r) == ret[r] = Raise(MSG_INIT)
\* the positions of the run's log holding a call of one of the operations
CallsOf(r, ops) == {k \in DOMAIN calls[r] : calls[r][k].op \in ops}
FailedCalls(r, ops) == {k \in CallsOf(r, ops) : ~calls[r][k].ok}
OkCalls(r, ops) == {k \in CallsOf(r, ops) : calls[r][k].ok}
GenerationOps == {"generate_blog_post", "generate_instagram_caption", "generate_tags",
                  "create_shorts_video"}
PlatformOps == GenerationOps \cup {"publish"}
\* the publish-outcome entries run r has added to its post so far
Added(r) ==
    IF post[r] = None THEN <<>>
    ELSE SubSeq(post[r].publish_results, Len(Before(r).publish_results) + 1,
                Len(post[r].publish_results))
\* the number of requested platforms of the run's post
N(r) == Len(Before(r).platforms)
\* the run wrote to the store, so the row of its post is its last write
Wrote(r) == OkCalls(r, {"update"}) # {}

C2_GenerationFailureIsolated ==
    \A r \in Runs : \A k \in FailedCalls(r, GenerationOps) :
        Done(r) =>
            LET i == calls[r][k].i
            IN  /\ Len(Added(r)) >= i
                /\ ~Added(r)[i].success
                /\ Added(r)[i].platform = Before(r).platforms[i]
                /\ \A j \in (i + 1)..N(r) :
                       \E m \in CallsOf(r, PlatformOps) : calls[r][m].i = j
                /\ post[r].status # FAILED
                /\ Stored(post_id[r]).status # FAILED

\* ----------------------------------------------------------------- C3
\* C3 (as claimed): after a run whose analysis succeeds and that ends
\* completed the post has exactly N publish-outcome entries, each of a
\* requested platform, whatever state the post was in before the run.
C3_ExactlyNEntries ==
    \A r \in Runs :
        (Done(r) /\ OkCalls(r, {"analyze_flower_image"}) # {}
                 /\ Stored(post_id[r]).status = COMPLETED) =>
            /\ Len(Stored(post_id[r]).publish_results) = N(r)
            /\ \A j \in 1..Len(Stored(post_id[r]).publish_results) :
                   \E q \in 1..N(r) :
                       Stored(post_id[r]).publish_results[j].platform = Before(r).platforms[q]

\* C3 (amended): such a run appends exactly N entries to those the post had
\* before it, the j-th of them for the j-th requested platform; the post has
\* exactly N entries when it had none before the run.
C3_RunAddsNEntries ==
    \A r \in Runs :
        (Done(r) /\ OkCalls(r, {"analyze_flower_image"}) # {}
                 /\ Stored(post_id[r]).status = COMPLETED) =>
            LET old == Before(r).publish_results
                new == Stored(post_id[r]).publish_results
            IN  /\ Len(new) = Len(old) + N(r)
                /\ SubSeq(new, 1, Len(old)) = old
                /\ \A j \in 1..N(r) : new[Len(old) + j].platform = Before(r).platforms[j]
                /\ \A j \in 1..Len(new) :
                       \E q \in 1..N(r) : new[j].platform = Before(r).platforms[q]

\* a completed re-run of a post with two platforms that already had two
\* entries, one platform failing and one succeeding in the re-run
C3_Witness ==
    \E r \in Runs :
        /\ Done(r) /\ OkCalls(r, {"analyze_flower_image"}) # {}
        /\ Stored(post_id[r]).status = COMPLETED
        /\ N(r) = 2 /\ Len(Before(r).publish_results) = 2
        /\ Len(Stored(post_id[r]).publish_results) = 4
        /\ \E j \in 3..4 : ~Stored(post_id[r]).publish_results[j].success
        /\ \E j \in 3..4 : Stored(post_id[r]).publish_results[j].success

\* ----------------------------------------------------------------- C4
AnalysisFailed(r) == FailedCalls(r, {"analyze_flower_image"}) # {}

\* C4 (as claimed): after any run whose analysis call fails the stored post
\* has status failed, an error message, zero publish-outcome entries and no
\* blog_content, for every post process can be invoked on.
C4_AnalysisFailureLeavesNothing ==
    \A r \in Runs :
        (Done(r) /\ AnalysisFailed(r)) =>
            /\ Stored(post_id[r]).status = FAILED
            /\ Stored(post_id[r]).error_message # NULL
            /\ Stored(post_id[r]).publish_results = <<>>
            /\ Stored(post_id[r]).blog_content = NULL

\* C4 (amended): after a run whose analysis call fails the stored
\* publish-outcome entries and blog_content are those the post had before the
\* run (none for a post no earlier run has published), and when the handler's
\* store write succeeds the stored status is failed with the analysis error
\* as message; when that write fails the task raises and the status stays
\* processing.
C4_AnalysisFailureAddsNothing ==
    \A r \in Runs :
        (Done(r) /\ AnalysisFailed(r)) =>
            /\ Stored(post_id[r]).publish_results = Before(r).publish_results
            /\ Stored(post_id[r]).blog_content = Before(r).blog_content
            /\ Before(r).publish_results = <<>> => Stored(post_id[r]).publish_results = <<>>
            /\ IF FailedCalls(r, {"update"}) = {}
               THEN /\ Stored(post_id[r]).status = FAILED
                    /\ Stored(post_id[r]).error_message = MSG_ANALYSIS
                    /\ ret[r] = ReturnFailure(MSG_ANALYSIS)
               ELSE /\ Stored(post_id[r]).status = PROCESSING
                    /\ ret[r].kind = "raise"

\* a re-run with failing analysis of a post an earlier run has completed with
\* blog content and an outcome entry
C4_Witness ==
    \E r \in Runs :
        /\ Done(r) /\ AnalysisFailed(r)
        /\ Stored(post_id[r]).status = FAILED
        /\ Before(r).status = COMPLETED
        /\ Stored(post_id[r]).publish_results # <<>>
        /\ Stored(post_id[r]).blog_content # NULL

OpsOfPlatform(platform) ==
    CASE platform = "naver" -> {"generate_blog_post", "publish"}
      [] platform = "instagram" -> {"generate_instagram_caption", "generate_tags", "publish"}
      [] OTHER -> {"create_shorts_video", "generate_tags", "publish"}

\* C6: the generation, rendering and publish calls of a run are made
\* platform by platform in request order (every call for the i-th requested
\* platform precedes every call for a later one, and is a call of that
\* platform's branch), and the j-th entry the run adds is the j-th requested
\* platform's.
C6_RequestOrder ==
    \A r \in Runs :
        /\ \A k, m \in CallsOf(r, PlatformOps) :
               k < m => calls[r][k].i <= calls[r][m].i
        /\ \A k \in CallsOf(r, PlatformOps) :
               /\ calls[r][k].i \in 1..N(r)
               /\ calls[r][k].op \in OpsOfPlatform(Before(r).platforms[calls[r][k].i])
        /\ \A j \in 1..Len(Added(r)) :
               /\ j <= N(r)
               /\ Added(r)[j].platform = Before(r).platforms[j]

\* a completed run of a post requesting [instagram, naver]: the two entries
\* appear in that order
C6_Witness ==
    \E r \in Runs :
        /\ Done(r) /\ Existing(r) /\ ret[r].success
        /\ Before(r).platforms = <<"instagram", "naver">>
        /\ Len(Stored(post_id[r]).publish_results) = 2
        /\ Stored(post_id[r]).publish_results[1].platform = "instagram"
        /\ Stored(post_id[r]).publish_results[2].platform = "naver"

\* ----------------------------------------------------------------- C7
\* C7: a run on an id that has no row, whose load is answered, returns
\* {"success": False, "error": "Post not found"}; it makes no call but the
\* load and every row of the store is as it was when the run started.
C7_NotFoundWritesNothing ==
    \A r \in Runs :
        (post_id[r] # NULL /\ snap[r][post_id[r]] = None) =>
            /\ store = snap[r]
            /\ CallsOf(r, {"update", "analyze_flower_image"} \cup PlatformOps) = {}
            /\ (Done(r) /\ OkCalls(r, {"find_by_id"}) # {}) =>
                   ret[r] = ReturnFailure("Post not found")

\* a run on the id without a row has returned, after an earlier run had
\* written to the row of another post
C7_Witness ==
    \E r \in Runs :
        /\ Done(r) /\ post_id[r] = "p3"
        /\ ret[r] = ReturnFailure("Post not found")
        /\ store["p1"].status # PENDING

\* ----------------------------------------------------------------- C8
\* C8 (as claimed): an invocation on an existing post id never ends with the
\* stored status left at pending or processing, whichever calls fail.
C8_EndsCompletedOrFailed ==
    \A r \in Runs :
        (Done(r) /\ Existing(r)) => Stored(post_id[r]).status \in {COMPLETED, FAILED}

\* C8 (amended): every invocation on an existing post id terminates, and it
\* ends with the stored status in {completed, failed} whenever it ends by
\* returning; when the load or the handler's own store write fails it ends by
\* raising and the stored status is the one last written.
C8_TerminatesAndReturnsTerminal ==
    \A r \in SeqRuns :
        (pc[r] = "find_by_id" /\ Existing(r)) ~>
            (/\ Existing(r)
             /\ Done(r)
             /\ ret[r].kind \in {"return", "raise"}
             /\ ret[r].kind = "return" => Stored(post_id[r]).status \in {COMPLETED, FAILED}
             /\ ret[r].kind = "raise" =>
                    \/ FailedCalls(r, {"find_by_id"}) # {}
                    \/ \E k \in FailedCalls(r, {"update"}) : calls[r][k].at = "except")

\* a run on an existing post has returned after a store update failed in
\* the loop, and the stored status is failed
C8_Witness ==
    \E r \in Runs :
        /\ Done(r) /\ Existing(r) /\ ret[r].kind = "return"
        /\ \E k \in FailedCalls(r, {"update"}) : calls[r][k].at = "save_result"
        /\ Stored(post_id[r]).status = FAILED

\* ----------------------------------------------------------------- C9
\* C9: whenever the row of a run's post holds status completed written by
\* that run, the run has made the publish call of every requested platform
\* and the row holds the entry of each, after those it held before the run.
C9_CompletedAfterAllPlatforms ==
    \A r \in Runs :
        (Existing(r) /\ Wrote(r) /\ store[post_id[r]].status = COMPLETED) =>
            /\ \A j \in 1..N(r) : \E k \in CallsOf(r, {"publish"}) : calls[r][k].i = j
            /\ Len(Added(r)) = N(r)
            /\ Stored(post_id[r]).publish_results = Before(r).publish_results \o Added(r)
            /\ \A j \in 1..N(r) : Added(r)[j].platform = Before(r).platforms[j]

\* a run has written completed for a post with two requested platforms, one
\* of which failed to publish
C9_Witness ==
    \E r \in Runs :
        /\ Existing(r) /\ Wrote(r) /\ store[post_id[r]].status = COMPLETED
        /\ N(r) = 2
        /\ \E j \in 1..2 : ~Added(r)[j].success

\* ---------------------------------------------------------------- C10
\* the store updates of run r that failed inside the try block
FailedTryUpdates(r) == {k \in FailedCalls(r, {"update"}) : calls[r][k].at # "except"}

\* C10 (as claimed): if a store update fails at any point of a run, the post
\* is persisted with status failed and the message of that error.
C10_UpdateFailurePersistsFailed ==
    \A r \in Runs :
        (Done(r) /\ FailedCalls(r, {"update"}) # {}) =>
            /\ Stored(post_id[r]).status = FAILED
            /\ Stored(post_id[r]).error_message = MSG_REPO_UPDATE

\* C10 (amended): if a store update fails inside the try block, the handler
\* sets status failed and the message of that error on the post and makes one
\* more store write, whatever writes succeeded before; the post is persisted
\* with status failed and that message when this write succeeds, and when it
\* fails too the task raises and the row stays as last written (status
\* processing, or untouched when no write of the run succeeded).
C10_UpdateFailureEscalates ==
    \A r \in Runs :
        (Done(r) /\ FailedTryUpdates(r) # {}) =>
            /\ post[r].status = FAILED
            /\ post[r].error_message = MSG_REPO_UPDATE
            /\ Cardinality(FailedTryUpdates(r)) = 1
            /\ \E k \in CallsOf(r, {"update"}) :
                   /\ calls[r][k].at = "except"
                   /\ k = Len(calls[r])
                   /\ IF calls[r][k].ok
                      THEN /\ store[post_id[r]] = _map_to_model(post[r])
                           /\ Stored(post_id[r]).status = FAILED
                           /\ Stored(post_id[r]).error_message = MSG_REPO_UPDATE
                           /\ ret[r] = ReturnFailure(MSG_REPO_UPDATE)
                      ELSE /\ ret[r] = Raise(MSG_REPO_UPDATE)
                           /\ IF Wrote(r)
                              THEN Stored(post_id[r]).status = PROCESSING
                              ELSE store = snap[r]

\* the update after the second platform's publish fails, after five writes
\* of the run had succeeded, and the handler's write succeeds
C10_Witness ==
    \E r \in Runs :
        /\ Done(r)
        /\ \E k \in FailedTryUpdates(r) : calls[r][k].at = "save_result" /\ calls[r][k].i = 2
        /\ Cardinality(OkCalls(r, {"update"})) >= 6
        /\ Stored(post_id[r]).status = FAILED
        /\ Stored(post_id[r]).error_message = MSG_REPO_UPDATE
        /\ Len(Stored(post_id[r]).publish_results) = 2

Aborted(r) == exc[r] # NoException \/ InitRaised(r)

\* C12: a run on a post whose stored status is completed is not a no-op.
\* Once its load is answered it writes status processing; it then calls the
\* analysis again; and, unless one of its own calls aborts it, it makes the
\* generation and the publish call of every requested platform again and
\* adds an entry for each, whichever platforms the earlier run published.
C12_RerunRunsEveryStage ==
    \A r \in Runs :
        (Existing(r) /\ Before(r).status = COMPLETED) =>
            /\ pc[r] = "analyze" =>
                   /\ post[r].status = PROCESSING
                   /\ Stored(post_id[r]).status = PROCESSING
                   /\ calls[r][Len(calls[r])] = Call("update", "set_processing", 0, TRUE)
            /\ pc[r] \in {"save_analysis", "generate", "save_content", "describe", "publish",
                          "save_result", "complete"} =>
                   OkCalls(r, {"analyze_flower_image"}) # {}
            /\ (Done(r) /\ ~Aborted(r)) =>
                   /\ OkCalls(r, {"analyze_flower_image"}) # {}
                   /\ \A j \in 1..N(r) :
                          /\ \E k \in OkCalls(r, GenerationOps) : calls[r][k].i = j
                          /\ \E k \in CallsOf(r, {"publish"}) : calls[r][k].i = j
                   /\ Len(Added(r)) = N(r)
                   /\ ret[r].success

\* a completed re-run of a post with two platforms, both of which the
\* earlier run had published successfully
C12_Witness ==
    \E r \in Runs :
        /\ Done(r) /\ Existing(r) /\ Before(r).status = COMPLETED
        /\ N(r) = 2 /\ Len(Before(r).publish_results) = 2
        /\ Before(r).publish_results[1].success /\ Before(r).publish_results[2].success
        /\ ret[r].success
        /\ Cardinality(CallsOf(r, {"publish"})) = 2
        /\ Stored(post_id[r]).flower_data # Before(r).flower_data

\* ---------------------------------------------------------------- C13
\* C13 (as claimed): completed and failed are terminal under any sequence
\* of invocations: a post whose stored status is completed or failed when an
\* invocation starts never has its stored status changed by it.
C13_TerminalStatusNeverChanges ==
    \A r \in Runs :
        (Existing(r) /\ Before(r).status \in {COMPLETED, FAILED}) =>
            Stored(post_id[r]).status = Before(r).status

\* C13 (amended): the stored status of a post changes only in a store write
\* of a run on that post: to processing by the run's first write (from
\* whatever status the post had, completed and failed included), to
\* completed by the write after the loop and only from processing, and to
\* failed by the handler's write; it never goes back to pending.
C13_StatusMovesWithinRun ==
    [][\A id \in StoredIds :
          store'[id].status # store[id].status =>
              \E r \in Runs :
                  /\ post_id[r] = id
                  /\ \/ /\ pc[r] = "set_processing"
                        /\ store'[id].status = PROCESSING
                     \/ /\ pc[r] = "complete"
                        /\ store[id].status = PROCESSING
                        /\ store'[id].status = COMPLETED
                     \/ /\ pc[r] = "except"
                        /\ store'[id].status = FAILED]_vars

\* a later run has moved a completed post back to processing
C13_Witness ==
    \E r \in Runs :
        /\ Existing(r) /\ Before(r).status = COMPLETED
        /\ Stored(post_id[r]).status = PROCESSING
        /\ pc[r] = "analyze"

\* ---------------------------------------------------------------- C14
\* C14 (as claimed): a run adds at most one publish-outcome entry per
\* platform, and the platform of every entry of the stored list is one of
\* the post's requested platforms, for every platforms list a stored post
\* can carry.
C14_OneEntryPerPlatformPerRun ==
    \A r \in Runs :
        Existing(r) =>
            /\ \A j, k \in 1..Len(Added(r)) :
                   j # k => Added(r)[j].platform # Added(r)[k].platform
            /\ \A j \in 1..Len(Stored(post_id[r]).publish_results) :
                   \E q \in 1..N(r) :
                       Stored(post_id[r]).publish_results[j].platform = Before(r).platforms[q]

\* ---------------------------------------------------------------- C15
\* C15 (as claimed): in every stored state the error message of a post is
\* non-null only when its status is failed.
C15_ErrorOnlyWhenFailed ==
    \A id \in StoredIds :
        Stored(id).error_message # NULL => Stored(id).status = FAILED

\* ---------------------------------------------------------------- C16
\* C16 (as claimed): when a post's analysis attributes were set by an
\* earlier run, a run whose analysis fails leaves them unchanged: the
\* flower_data the store holds after the run equals the flower_data it held
\* before the run.
C16_FailedAnalysisKeepsAttributes ==
    \A r \in Runs :
        (Done(r) /\ Existing(r) /\ AnalysisFailed(r)
                 /\ snap[r][post_id[r]].flower_data # NoData) =>
            store[post_id[r]].flower_data = snap[r][post_id[r]].flower_data

\* ---------------------------------------------------------------- C17
\* C17: update(post) for a post whose id has no row raises, inserts no row
\* for the id, and leaves every row of the table as it was.
C17_UpdateOfMissingIdFails ==
    (direct.op = "update" /\ direct.before[direct.post.id] = None) =>
        /\ direct.raised
        /\ direct.value = None
        /\ store[direct.post.id] = None
        /\ \A id \in PostIds : store[id] = direct.before[id]

\* update was called, without a database error, for the id that has no row,
\* while the table held a row with analysis attributes and an outcome entry
C17_Witness ==
    /\ direct.op = "update"
    /\ direct.post.id = "p3"
    /\ direct.db_ok
    /\ direct.raised
    /\ store["p1"].flower_data # NoData
    /\ ~store["p1"].publish_results.isnull

\* ---------------------------------------------------------------- C18
\* a flower_data value as the JSON object it stands for
AsDict(data) == IF data.kind = "FlowerData" THEN to_dict(data) ELSE data

\* C18 (as claimed): after update(post) has returned, a load of the id
\* returns the field values that were written, field by field, null and
\* empty values included (analysis attributes compared as JSON objects).
C18_LoadReturnsWhatWasWritten ==
    (direct.op = "update" /\ ~direct.raised) =>
        LET loaded == find_by_id(store, direct.post.id)
        IN  /\ loaded # None
            /\ [loaded EXCEPT !.flower_data = AsDict(@)] =
                   [direct.post EXCEPT !.flower_data = AsDict(@)]

\* ---------------------------------------------------------------- C19
\* C19: when the pipelines of two different post ids run at the same time
\* with their steps interleaved in any way, a row changes only in a
\* successful store update of the pipeline that owns its id, and then to
\* that pipeline's own post; so, as when the pipeline runs alone, the row of
\* a pipeline's post is the row the store held when the pipeline started
\* until the pipeline writes, and the pipeline's own post after each of its
\* writes.
C19_NoCrossPostInterference ==
    /\ [](\A r \in Runs :
             Existing(r) =>
                 /\ ~Wrote(r) => store[post_id[r]] = snap[r][post_id[r]]
                 /\ (calls[r] # <<>> /\ calls[r][Len(calls[r])].op = "update"
                                     /\ calls[r][Len(calls[r])].ok) =>
                        store[post_id[r]] = _map_to_model(post[r]))
    /\ [][\A id \in PostIds :
             store'[id] # store[id] =>
                 \E r \in Runs :
                     /\ post_id[r] = id
                     /\ calls'[r] = Append(calls[r], Call("update", pc[r], idx[r], TRUE))
                     /\ store'[id] = _map_to_model(post'[r])]_vars

\* both pipelines are between two of their store writes at the same time:
\* each has stored its generated content and neither has published yet
C19_Witness ==
    /\ post_id[1] = "p1" /\ post_id[2] = "p2"
    /\ pc[1] = "publish" /\ pc[2] = "publish"
    /\ store["p1"].status = PROCESSING /\ store["p2"].status = PROCESSING
    /\ store["p1"].flower_data # store["p2"].flower_data
    /\ store["p2"].blog_content # NULL

\* ---------------------------------------------------------------- C20
\* the run ended by an exception leaving the task: its load raised (the
\* handler then fails on the unbound post) or the handler's own store update
\* raised
HandlerRaised(r) ==
    \/ FailedCalls(r, {"find_by_id"}) # {}
    \/ \E k \in FailedCalls(r, {"update"}) : calls[r][k].at = "except"

HoldsAttributes(column, a) == IF a.keys = {} THEN column.keys = {} ELSE column = a

\* run r makes a generation or rendering call in this step
GenerationCall(r) ==
    /\ Len(calls'[r]) > Len(calls[r])
    /\ calls'[r][Len(calls[r]) + 1].op \in GenerationOps

\* C21: when a run makes a content-generation or rendering call, its
\* analysis has returned, an update made after the analysis has completed,
\* and the row of its post holds the attributes this run's analysis returned.
C21_AnalysisStoredBeforeGeneration ==
    [][\A r \in SeqRuns :
         GenerationCall(r) =>
           /\ OkCalls(r, {"analyze_flower_image"}) # {}
           /\ \E k \in OkCalls(r, {"update"}) :
                /\ calls[r][k].at = "save_analysis"
                /\ \A j \in CallsOf(r, {"analyze_flower_image"}) : j < k
           /\ HoldsAttributes(store[post_id[r]].flower_data, flower_data[r])]_vars

\* a run whose analysis returned attributes is about to make its first
\* generation call, and the row already holds those attributes
C21_Witness ==
    \E r \in SeqRuns :
        /\ pc[r] = "generate" /\ idx[r] = 1
        /\ flower_data[r] \in Attributes(task_id[r])
        /\ CallsOf(r, GenerationOps) = {}
        /\ store[post_id[r]].flower_data = flower_data[r]

\* ----------------------------------------------------------------- C22
\* the post p holds the artifacts invocation n generated for the platform:
\* the fields of FlowerPost the platform's branch assigns
HoldsArtifacts(p, platform, n) ==
    IF platform = "naver" THEN p.blog_content \in BlogContents(n)
    ELSE IF platform = "instagram"
    THEN /\ p.instagram_caption \in Captions(n)
         /\ p.instagram_tags \in {List(t) : t \in TagLists(n)}
    ELSE p.video_path = VideoPath(p.id)

\* the stored post holds the artifacts and the publish-outcome entries of
\* the first m requested platforms of run r
EarlierPlatformsStored(r, m) ==
    LET p == Stored(post_id[r])
        base == Len(Before(r).publish_results)
    IN  /\ Len(p.publish_results) >= base + m
        /\ \A j \in 1..m :
             /\ HoldsArtifacts(p, p.platforms[j], task_id[r])
             /\ p.publish_results[base + j].platform = p.platforms[j]
             /\ p.publish_results[base + j] = post[r].publish_results[base + j]

Identity(row) ==
    [id |-> row.id, image_paths |-> row.image_paths, platforms |-> row.platforms,
     created_at |-> row.created_at]

\* C23: from the start of an invocation to its end, on every path, the
\* store has a row for exactly the ids it had a row for when the invocation
\* started, and the id, image references, requested platforms and
\* created-at of every row are those it had then.
C23_IdentityFieldsUnchanged ==
    \A r \in SeqRuns :
        pc[r] # "idle" =>
            \A id \in PostIds :
                /\ (store[id] = None) <=> (snap[r][id] = None)
                /\ store[id] # None => Identity(store[id]) = Identity(snap[r][id])

\* a run on a post with two requested platforms has ended after writing
\* to the store
C23_Witness ==
    \E r \in SeqRuns :
        /\ Done(r) /\ Existing(r) /\ Wrote(r)
        /\ store[post_id[r]] # snap[r][post_id[r]]
        /\ Len(store[post_id[r]].platforms) = MaxPlatforms

\* ----------------------------------------------------------------- C24
\* the sequence s is an initial segment of the sequence t
IsPrefix(s, t) == Len(s) <= Len(t) /\ SubSeq(t, 1, Len(s)) = s

\* C24: every step of every invocation, of a first run or of a re-run of
\* the same post, leaves the stored publish-outcome list of every post as
\* it was or extends it at its end: the entries stored before are still
\* there, in the same order, before any new entry.
C24_PublishResultsOnlyGrow ==
    [][\A id \in StoredIds :
         IsPrefix(Stored(id).publish_results, Stored(id)'.publish_results)]_vars

\* a re-run has stored a new entry after the entries of the earlier run
C24_Witness ==
    \E r \in SeqRuns :
        /\ task_id[r] = 2 /\ Existing(r)
        /\ Len(Before(r).publish_results) >= 1
        /\ Len(Stored(post_id[r]).publish_results) > Len(Before(r).publish_results)

\* ----------------------------------------------------------------- C25
\* C25: an invocation that has ended has closed the session it opened,
\* however it ended: not found, completed, failed, an exception raised
\* while the services were constructed, or an exception raised by the
\* failure handler's own update.
C25_SessionClosedAtEnd ==
    \A r \in SeqRuns : Done(r) => ~db_open[r]

\* ----------------------------------------------------------------- C26
\* the strings of a request that are platform identifiers, in request order
ValidPlatforms(platforms) == SelectSeq(platforms, LAMBDA p : p \in Platform)

\* C26: an accepted submission persists a pending post whose platforms list
\* holds, in request order, every requested string that is one of the three
\* platform identifiers.
C26_ValidPlatformsPersisted ==
    (direct.op = "upload" /\ ~direct.raised) =>
        /\ store[direct.id] # None
        /\ store[direct.id].status = PENDING
        /\ store[direct.id].platforms = ValidPlatforms(direct.platforms)

\* ----------------------------------------------------------------- C27
\* C27: a run whose load raised a store error ends by returning the
\* failure outcome that carries the message of that error; its handler
\* raises nothing.
C27_LoadErrorReturnsFailure ==
    \A r \in SeqRuns :
        (Done(r) /\ FailedCalls(r, {"find_by_id"}) # {}) =>
            /\ exc[r].type = "RepositoryError"
            /\ ret[r] = ReturnFailure(MSG_REPO_FIND)

\* ----------------------------------------------------------------- C28
\* the number of publish-outcome entries run r has written to the store
Saved(r) == Cardinality({k \in OkCalls(r, {"update"}) : calls[r][k].at = "save_result"})

\* C28: when two invocations for the same post id have both run to their
\* return, in whatever interleaving, the stored publish-outcome list holds
\* the entries both runs wrote, and the stored status is the one the run
\* that ended last returned with.
C28_NoLostWrite ==
    [][\A r \in Runs : \A o \in Runs \ {r} :
         (/\ pc[r] = "finally" /\ pc'[r] = "done" /\ Done(o)
          /\ post_id[r] = post_id[o] /\ Existing(r)
          /\ ret[r].kind = "return" /\ ret[o].kind = "return") =>
            /\ Len(Stored(post_id[r]).publish_results) >= Saved(r) + Saved(o)
            /\ Stored(post_id[r]).status = IF ret[r].success THEN COMPLETED ELSE FAILED]_vars

\* ----------------------------------------------------------------- C29
\* C29: when the failure handler has stored status failed for a post, the
\* stored error detail is not null and is the message of the exception the
\* handler was entered with, whatever that message is (the empty string
\* included) and whatever message the post carried from an earlier failed
\* run.
C29_FailedCarriesMessage ==
    (direct.op = "handler" /\ ~direct.raised) =>
        /\ Stored(direct.post.id).status = FAILED
        /\ Stored(direct.post.id).error_message # NULL
        /\ Stored(direct.post.id).error_message = direct.exception.message

\* ----------------------------------------------------------------- C30
\* C30: for an invocation that has ended, get_task_result reports
\* "completed" only if the stored status of the post is completed, and
\* reports "failed" whenever the post was not found or its stored status is
\* failed.
C30_QueueStatusAgrees ==
    \A r \in SeqRuns :
        Done(r) =>
            LET status == get_task_result(ret[r]).status
            IN  /\ status = "completed" =>
                       (Existing(r) /\ Stored(post_id[r]).status = COMPLETED)
                /\ (~Existing(r) \/ Stored(post_id[r]).status = FAILED) =>
                       status = "failed"
====
